---- MODULE Spec2Model ----
(***************************************************************************)
(* Urafiki captive portal (src/main.py): voucher assignment gated by an    *)
(* authorization list, with the three stores kept as CSV files.            *)
(*                                                                         *)
(* Text is a sequence of one-character strings.  The persistent state is   *)
(* the text of the cells of the three CSV files; every load goes through   *)
(* read_csv (with its type inference) and every save through to_csv.       *)
(***************************************************************************)
EXTENDS Integers, Sequences, FiniteSets, TLC

(***************************************************************************)
(* Bounds of the model.                                                    *)
(***************************************************************************)
\* rows of an uploaded file
MaxRows == 2
\* rows of the Mapping Log
MaxLog == 2
\* last second of the wall clock
MaxClock == 0
MaxRequests == 2

(***************************************************************************)
(* Text helpers: str.lower(), str.split(), str.strip().                    *)
(***************************************************************************)
UpperCase == <<"A","B","C","D","E","F","G","H","I","J","K","L","M",
               "N","O","P","Q","R","S","T","U","V","W","X","Y","Z">>
LowerCase == <<"a","b","c","d","e","f","g","h","i","j","k","l","m",
               "n","o","p","q","r","s","t","u","v","w","x","y","z">>
Whitespace == {" ", "\t", "\n", "\r", "\f"}

LowerChar(c) ==
    IF \E i \in 1..Len(UpperCase) : UpperCase[i] = c
    THEN LowerCase[CHOOSE i \in 1..Len(UpperCase) : UpperCase[i] = c]
    ELSE c

Lower(s) == [i \in 1..Len(s) |-> LowerChar(s[i])]

RECURSIVE SplitFrom(_, _, _)
\* scan s from position i; cur is the part being collected
SplitFrom(s, i, cur) ==
    IF i > Len(s)
    THEN IF cur = <<>> THEN <<>> ELSE <<cur>>
    ELSE IF s[i] \in Whitespace
         THEN IF cur = <<>> THEN SplitFrom(s, i + 1, <<>>)
              ELSE <<cur>> \o SplitFrom(s, i + 1, <<>>)
         ELSE SplitFrom(s, i + 1, Append(cur, s[i]))

Split(s) == SplitFrom(s, 1, <<>>)

RECURSIVE LStrip(_)
LStrip(s) == IF s # <<>> /\ Head(s) \in Whitespace THEN LStrip(Tail(s)) ELSE s

RECURSIVE RStrip(_)
RStrip(s) ==
    IF s # <<>> /\ s[Len(s)] \in Whitespace
    THEN RStrip(SubSeq(s, 1, Len(s) - 1))
    ELSE s

Strip(s) == RStrip(LStrip(s))

(***************************************************************************)
(* CSV cells.  read_csv infers a type per column; a loaded cell is         *)
(*   [t |-> "str", s |-> text, n |-> 0]   a Python str                     *)
(*   [t |-> "int", s |-> <<>>, n |-> k]   numpy int64 k                    *)
(*   [t |-> "float", s |-> <<>>, n |-> k] numpy float64 k.0                *)
(*   [t |-> "nan", s |-> <<>>, n |-> 0]   NaN (missing value)              *)
(***************************************************************************)
StrVal(s) == [t |-> "str", s |-> s, n |-> 0]
IntVal(k) == [t |-> "int", s |-> <<>>, n |-> k]
FloatVal(k) == [t |-> "float", s |-> <<>>, n |-> k]
NaN == [t |-> "nan", s |-> <<>>, n |-> 0]

\* cell texts read_csv takes for a missing value (its default na_values)
NaValues ==
    { <<>>, <<"N","A">>, <<"N","a","N">>, <<"n","a","n">>,
      <<"N","U","L","L">>, <<"n","u","l","l">>, <<"N","/","A">>,
      <<"n","/","a">>, <<"#","N","/","A">>, <<"#","N","A">>,
      <<"<","N","A",">">>, <<"-","N","a","N">>, <<"-","n","a","n">> }

Digits == <<"0","1","2","3","4","5","6","7","8","9">>

IsDigit(c) == \E i \in 1..10 : Digits[i] = c
DigitValue(c) == (CHOOSE i \in 1..10 : Digits[i] = c) - 1

IsIntText(s) == Len(s) > 0 /\ \A i \in 1..Len(s) : IsDigit(s[i])

\* text of the form <digits>.0, the only float text to_csv produces here
IsFloatText(s) ==
    /\ Len(s) > 2
    /\ s[Len(s)] = "0"
    /\ s[Len(s) - 1] = "."
    /\ IsIntText(SubSeq(s, 1, Len(s) - 2))

RECURSIVE ParseInt(_)
ParseInt(s) ==
    IF s = <<>> THEN 0
    ELSE 10 * ParseInt(SubSeq(s, 1, Len(s) - 1)) + DigitValue(s[Len(s)])

RECURSIVE FormatInt(_)
FormatInt(k) ==
    IF k < 10 THEN <<Digits[k + 1]>>
    ELSE Append(FormatInt(k \div 10), Digits[(k % 10) + 1])

\* the number a numeric cell text stands for
ParseNumber(s) ==
    IF IsIntText(s) THEN ParseInt(s) ELSE ParseInt(SubSeq(s, 1, Len(s) - 2))

\* pd.read_csv on one column: cells is the sequence of cell texts
ReadColumn(cells) ==
    LET present == { i \in 1..Len(cells) : cells[i] \notin NaValues }
        allInt == \A i \in present : IsIntText(cells[i])
        allNum == \A i \in present : IsIntText(cells[i]) \/ IsFloatText(cells[i])
    IN  IF present = {} THEN [i \in 1..Len(cells) |-> NaN]
        ELSE IF allInt /\ present = 1..Len(cells)
             THEN [i \in 1..Len(cells) |-> IntVal(ParseInt(cells[i]))]
        ELSE IF allNum
             THEN [i \in 1..Len(cells) |->
                      IF i \in present THEN FloatVal(ParseNumber(cells[i])) ELSE NaN]
        ELSE [i \in 1..Len(cells) |->
                 IF i \in present THEN StrVal(cells[i]) ELSE NaN]

\* str(value)
ToStr(v) ==
    CASE v.t = "str" -> v.s
      [] v.t = "int" -> FormatInt(v.n)
      [] v.t = "float" -> FormatInt(v.n) \o <<".", "0">>
      [] OTHER -> <<"n","a","n">>

\* DataFrame.to_csv on one cell (NaN is written as an empty cell)
WriteCell(v) == IF v.t = "nan" THEN <<>> ELSE ToStr(v)

WriteColumn(col) == [i \in 1..Len(col) |-> WriteCell(col[i])]

\* elementwise == of a pandas column cell with a value
PdEq(a, b) ==
    IF a.t = "nan" \/ b.t = "nan" THEN FALSE
    ELSE IF a.t = "str" \/ b.t = "str" THEN a = b
    ELSE a.n = b.n

(***************************************************************************)
(* Messages shown by the page.                                             *)
(***************************************************************************)
NotAuthorized == "You are not authorized to receive a voucher. Please contact the administrator."
NoVouchersAvailable == "No vouchers available"
EmptyInput == "Please enter your full name"
VoucherSchemaInvalid == "CSV must contain a 'voucher_code' column"
UserSchemaInvalid == "CSV must contain a 'full_name' column"
\* the next three are shown with the exception text or the row count appended
ImportParseFailure == "Error uploading file"
VouchersUploaded == "Successfully uploaded vouchers"
UsersUploaded == "Successfully uploaded authorized users"

admin_password == "ucs.ke"

(***************************************************************************)
(* State: the rows of the three CSV files, the wall clock and what the     *)
(* page last showed.                                                       *)
(***************************************************************************)
VARIABLES
    vouchers,          \* data/vouchers.csv: rows [voucher_code, assigned]
    mappings,          \* data/mappings.csv: rows [timestamp, full_name, voucher_code]
    authorized_users,  \* data/authorized_users.csv: column full_name
    now,               \* datetime.now(), in seconds
    result,            \* outcome of the last submission or upload
    epoch,             \* history: assign_voucher calls since the last voucher upload
    statistics,        \* "System Statistics" as the page shows them
    requests           \* assign_voucher calls in progress, one per session

vars ==
    <<vouchers, mappings, authorized_users, now, result, epoch, statistics, requests>>

Column(rows, field) == [i \in 1..Len(rows) |-> rows[i][field]]

\* pd.read_csv of vouchers.csv: the voucher_code column as loaded
read_vouchers(csv) == ReadColumn(Column(csv, "voucher_code"))

\* pd.read_csv of mappings.csv: the full_name and voucher_code columns as loaded
read_mappings(csv) ==
    [full_name |-> ReadColumn(Column(csv, "full_name")),
     voucher_code |-> ReadColumn(Column(csv, "voucher_code"))]

\* load_vouchers(): the frame's voucher_code column as loaded
load_vouchers == read_vouchers(vouchers)

\* load_mappings(): the full_name and voucher_code columns as loaded
load_mappings == read_mappings(mappings)

\* load_authorized_users()
load_authorized_users == ReadColumn(authorized_users)

\* any(part in auth_name_parts for part in user_name_parts)
PartsMatch(user_name_parts, auth_name_parts) ==
    \E i \in 1..Len(user_name_parts) :
        \E j \in 1..Len(auth_name_parts) :
            user_name_parts[i] = auth_name_parts[j]

is_user_authorized(full_name) ==
    LET users == load_authorized_users
        full_name_lower == Lower(full_name)
    IN  \E k \in 1..Len(users) :
            PartsMatch(Split(full_name_lower), Split(Lower(ToStr(users[k]))))

Min(S) == CHOOSE x \in S : \A y \in S : x <= y

\* pd.concat of a loaded column with one new value: the common dtype
ConcatColumn(col, v) ==
    LET all == Append(col, v)
        object == \E i \in 1..Len(all) : all[i].t = "str"
        floating == \E i \in 1..Len(all) : all[i].t \in {"float", "nan"}
    IN  IF object \/ ~floating THEN all
        ELSE [i \in 1..Len(all) |->
                 IF all[i].t = "int" THEN FloatVal(all[i].n) ELSE all[i]]

Outcome(kind, name, value, message) ==
    [kind |-> kind, name |-> name, value |-> value, message |-> message]

NoResult == Outcome("none", <<>>, NaN, "")

\* a variant of the metrics that takes "Assigned Vouchers" from the Mapping Log
SystemStatistics_from_log(v, m, a) ==
    [shown |-> TRUE,
     total_vouchers |-> Len(v),
     available_vouchers |-> Cardinality({ i \in 1..Len(v) : v[i].assigned = FALSE }),
     authorized_users |-> Len(a),
     assigned_vouchers |-> Len(m),
     total_users |-> Len(m)]

\* the metrics of the admin section, computed from the three files
SystemStatistics(v, m, a) ==
    [shown |-> TRUE,
     total_vouchers |-> Len(v),
     available_vouchers |-> Cardinality({ i \in 1..Len(v) : v[i].assigned = FALSE }),
     authorized_users |-> Len(a),
     assigned_vouchers |-> Cardinality({ i \in 1..Len(v) : v[i].assigned = TRUE }),
     total_users |-> Len(m)]

\* the user section shows no statistics
NoStatistics ==
    [shown |-> FALSE, total_vouchers |-> 0, available_vouchers |-> 0,
     authorized_users |-> 0, assigned_vouchers |-> 0, total_users |-> 0]

Requests == 1..MaxRequests

\* a session with no call in progress
Idle ==
    [pc |-> "idle", full_name |-> <<>>, vouchers_df |-> <<>>, mappings_df |-> <<>>,
     value |-> NaN, rivals |-> {}, after_crash |-> {}]

Init ==
    /\ requests = [r \in Requests |-> Idle]
    /\ vouchers = <<>>
    /\ mappings = <<>>
    /\ authorized_users = <<>>
    /\ now = 0
    /\ result = NoResult
    /\ epoch = [valid |-> FALSE, n |-> 0, calls |-> <<>>]
    /\ statistics = NoStatistics

(***************************************************************************)
(* assign_voucher(full_name): what it returns and what it leaves in the    *)
(* two files.  allocate is the part after the authorization check, run on  *)
(* the file contents the call has loaded.                                  *)
(***************************************************************************)
allocate(full_name, timestamp, vouchers_csv, mappings_csv) ==
    LET vouchers_df == read_vouchers(vouchers_csv)
        mappings_df == read_mappings(mappings_csv)
        existing_mapping ==
            { i \in 1..Len(mappings_csv) :
                PdEq(mappings_df.full_name[i], StrVal(full_name)) }
        available_vouchers ==
            { i \in 1..Len(vouchers_csv) : vouchers_csv[i].assigned = FALSE }
        voucher_code == vouchers_df[Min(available_vouchers)]
        marked ==
            [i \in 1..Len(vouchers_csv) |->
                [voucher_code |-> WriteCell(vouchers_df[i]),
                 assigned |-> IF PdEq(vouchers_df[i], voucher_code)
                              THEN TRUE ELSE vouchers_csv[i].assigned]]
        names == Append(mappings_df.full_name, StrVal(full_name))
        codes == ConcatColumn(mappings_df.voucher_code, voucher_code)
        stamps == Append(Column(mappings_csv, "timestamp"), timestamp)
        appended ==
            [i \in 1..Len(mappings_csv) + 1 |->
                [timestamp |-> stamps[i],
                 full_name |-> WriteCell(names[i]),
                 voucher_code |-> WriteCell(codes[i])]]
    IN  IF existing_mapping # {}
        THEN [ok |-> TRUE,
              value |-> mappings_df.voucher_code[Min(existing_mapping)],
              message |-> "",
              vouchers |-> vouchers_csv, mappings |-> mappings_csv]
        ELSE IF available_vouchers = {}
        THEN [ok |-> FALSE, value |-> NaN, message |-> NoVouchersAvailable,
              vouchers |-> vouchers_csv, mappings |-> mappings_csv]
        ELSE [ok |-> TRUE, value |-> voucher_code, message |-> "",
              vouchers |-> marked, mappings |-> appended]

assign_voucher(full_name, timestamp) ==
    IF ~is_user_authorized(full_name)
    THEN [ok |-> FALSE, value |-> NaN, message |-> NotAuthorized,
          vouchers |-> vouchers, mappings |-> mappings]
    ELSE allocate(full_name, timestamp, vouchers, mappings)

(***************************************************************************)
(* Inputs.                                                                 *)
(***************************************************************************)
PasswordInputs == {"", "ucs.ke"}

\* what a visitor may type into "Full Name"
NameInputs ==
    { <<"a"," ","b">>, <<"A"," ","b">>, <<"a","b">>, <<"7">>,
      <<"n","a","n">>, <<" ">>, <<" ","a"," ","b">> }

\* cells of the full_name column of an uploaded users file
UserCells == { <<"a"," ","7">>, <<"N","A">> }

\* cells of the voucher_code column of an uploaded vouchers file
VoucherCells == { <<"A","1">>, <<"0","7">> }

\* datetime.now() never runs backwards
Clock == now..MaxClock

RECURSIVE SeqsUpTo(_, _)
SeqsUpTo(S, n) ==
    IF n = 0 THEN {<<>>}
    ELSE LET shorter == SeqsUpTo(S, n - 1)
         IN  shorter \cup { Append(q, x) : q \in shorter, x \in S }

\* an uploaded file: unreadable, or a table that has or lacks the column
Uploads(cells) ==
    {[readable |-> FALSE, has_column |-> FALSE, column |-> <<>>],
     [readable |-> TRUE, has_column |-> FALSE, column |-> <<>>]}
    \cup {[readable |-> TRUE, has_column |-> TRUE, column |-> c] :
             c \in SeqsUpTo(cells, MaxRows)}

(***************************************************************************)
(* History of the assign_voucher calls made since the last voucher upload, *)
(* kept while they are by pairwise distinct authorized names.              *)
(***************************************************************************)
NoEpoch == [valid |-> FALSE, n |-> 0, calls |-> <<>>]

EpochAfterCall(full_name, r) ==
    IF /\ epoch.valid
       /\ Len(epoch.calls) <= epoch.n
       /\ is_user_authorized(full_name)
       /\ \A k \in 1..Len(epoch.calls) : epoch.calls[k].name # full_name
    THEN [epoch EXCEPT !.calls =
             Append(@, [name |-> full_name, ok |-> r.ok, value |-> r.value,
                        message |-> r.message])]
    ELSE NoEpoch

(***************************************************************************)
(* Actions.                                                                *)
(***************************************************************************)
\* the "Get Voucher" form, shown when the admin password is not entered
voucher_form(password_input, full_name, timestamp) ==
    /\ password_input # admin_password
    /\ now' = timestamp
    /\ IF Strip(full_name) = <<>>
       THEN /\ result' = Outcome("error", <<>>, NaN, EmptyInput)
            /\ UNCHANGED <<vouchers, mappings, epoch>>
       ELSE LET r == assign_voucher(Strip(full_name), timestamp)
            IN  /\ Len(r.mappings) <= MaxLog
                /\ result' = IF r.ok
                             THEN Outcome("success", Strip(full_name), r.value, "")
                             ELSE Outcome("error", <<>>, NaN, r.message)
                /\ vouchers' = r.vouchers
                /\ mappings' = r.mappings
                /\ epoch' = EpochAfterCall(Strip(full_name), r)
    /\ statistics' = NoStatistics
    /\ UNCHANGED authorized_users

\* a variant of the "Upload Vouchers" tab that writes the file first and
\* looks for the voucher_code column afterwards
upload_vouchers_write_first(password_input, uploaded_vouchers) ==
    /\ password_input = admin_password
    /\ IF ~uploaded_vouchers.readable
       THEN /\ result' = Outcome("error", <<>>, NaN, ImportParseFailure)
            /\ UNCHANGED <<vouchers, epoch>>
       ELSE LET new_vouchers == ReadColumn(uploaded_vouchers.column)
            IN  /\ vouchers' =
                       [i \in 1..Len(new_vouchers) |->
                           [voucher_code |-> WriteCell(new_vouchers[i]),
                            assigned |-> FALSE]]
                /\ result' =
                       IF uploaded_vouchers.has_column
                       THEN Outcome("success", <<>>, NaN, VouchersUploaded)
                       ELSE Outcome("error", <<>>, NaN, VoucherSchemaInvalid)
                /\ epoch' = NoEpoch
    /\ UNCHANGED <<mappings, authorized_users, now>>
    /\ statistics' = SystemStatistics(vouchers', mappings, authorized_users)

\* "Upload Vouchers" tab
upload_vouchers(password_input, uploaded_vouchers) ==
    /\ password_input = admin_password
    /\ IF ~uploaded_vouchers.readable
       THEN /\ result' = Outcome("error", <<>>, NaN, ImportParseFailure)
            /\ UNCHANGED <<vouchers, epoch>>
       ELSE IF ~uploaded_vouchers.has_column
       THEN /\ result' = Outcome("error", <<>>, NaN, VoucherSchemaInvalid)
            /\ UNCHANGED <<vouchers, epoch>>
       ELSE LET new_vouchers == ReadColumn(uploaded_vouchers.column)
            IN  /\ vouchers' =
                       [i \in 1..Len(new_vouchers) |->
                           [voucher_code |-> WriteCell(new_vouchers[i]),
                            assigned |-> FALSE]]
                /\ result' = Outcome("success", <<>>, NaN, VouchersUploaded)
                /\ epoch' = IF mappings = <<>>
                            THEN [valid |-> TRUE, n |-> Len(new_vouchers),
                                  calls |-> <<>>]
                            ELSE NoEpoch
    /\ UNCHANGED <<mappings, authorized_users, now>>
    /\ statistics' = SystemStatistics(vouchers', mappings, authorized_users)

\* "Upload Users" tab
upload_users(password_input, uploaded_users) ==
    /\ password_input = admin_password
    /\ IF ~uploaded_users.readable
       THEN /\ result' = Outcome("error", <<>>, NaN, ImportParseFailure)
            /\ UNCHANGED <<authorized_users, epoch>>
       ELSE IF ~uploaded_users.has_column
       THEN /\ result' = Outcome("error", <<>>, NaN, UserSchemaInvalid)
            /\ UNCHANGED <<authorized_users, epoch>>
       ELSE /\ authorized_users' = WriteColumn(ReadColumn(uploaded_users.column))
            /\ result' = Outcome("success", <<>>, NaN, UsersUploaded)
            /\ epoch' = NoEpoch
    /\ UNCHANGED <<vouchers, mappings, now>>
    /\ statistics' = SystemStatistics(vouchers, mappings, authorized_users')

\* the admin section rendered with no file in either uploader
admin_page(password_input) ==
    /\ password_input = admin_password
    /\ result' = NoResult
    /\ statistics' = SystemStatistics(vouchers, mappings, authorized_users)
    /\ UNCHANGED <<vouchers, mappings, authorized_users, now, epoch>>

(***************************************************************************)
(* assign_voucher step by step.  Each session runs the script in a thread  *)
(* of its own, so the file reads and writes of two calls interleave.       *)
(***************************************************************************)
\* an import of vouchers ends what is remembered of interrupted calls
after_import(reqs) ==
    [r \in Requests |->
        IF reqs[r].pc = "crashed" THEN Idle
        ELSE [reqs[r] EXCEPT !.after_crash = {}]]

\* what the call of session r computes from the files it has loaded
computed(r, timestamp) ==
    allocate(requests[r].full_name, timestamp,
             requests[r].vouchers_df, requests[r].mappings_df)

\* session r starts a new run: what is remembered of its last call goes
restarted(r, record) ==
    [q \in Requests |->
        IF q = r THEN record
        ELSE [requests[q] EXCEPT !.rivals = @ \ {r}]]

\* the form is submitted in session r: the input check and the
\* authorization check that opens assign_voucher
submit(r, password_input, full_name) ==
    /\ password_input # admin_password
    /\ requests[r].pc \in {"idle", "done"}
    /\ IF Strip(full_name) = <<>>
       THEN /\ requests' = restarted(r, Idle)
            /\ result' = Outcome("error", <<>>, NaN, EmptyInput)
       ELSE IF ~is_user_authorized(Strip(full_name))
       THEN /\ requests' = restarted(r, Idle)
            /\ result' = Outcome("error", <<>>, NaN, NotAuthorized)
       ELSE /\ requests' =
                   restarted(r,
                       [Idle EXCEPT
                           !.pc = "load_vouchers",
                           !.full_name = Strip(full_name),
                           !.after_crash =
                               { q \in Requests : requests[q].pc = "crashed" }])
            /\ result' = NoResult
    /\ statistics' = NoStatistics
    /\ epoch' = NoEpoch
    /\ UNCHANGED <<vouchers, mappings, authorized_users, now>>

\* vouchers_df = load_vouchers()
assign_voucher_load_vouchers(r) ==
    /\ requests[r].pc = "load_vouchers"
    /\ requests' = [requests EXCEPT ![r].pc = "load_mappings",
                                     ![r].vouchers_df = vouchers]
    /\ UNCHANGED <<vouchers, mappings, authorized_users, now, result, epoch,
                   statistics>>

\* mappings_df = load_mappings(), the lookup of an existing mapping and the
\* choice of the first available voucher
assign_voucher_load_mappings(r) ==
    /\ requests[r].pc = "load_mappings"
    /\ LET full_name == requests[r].full_name
           a == allocate(full_name, now, requests[r].vouchers_df, mappings)
           rivals ==
               { q \in Requests \ {r} :
                   /\ requests[q].pc = "persist_vouchers"
                   /\ requests[q].full_name # full_name
                   /\ requests[q].vouchers_df = requests[r].vouchers_df }
       IN  IF ~a.ok
           THEN /\ requests' = [requests EXCEPT ![r] = Idle]
                /\ result' = Outcome("error", <<>>, NaN, a.message)
                /\ statistics' = NoStatistics
           ELSE IF a.mappings = mappings
           THEN /\ requests' = [requests EXCEPT ![r] = Idle]
                /\ result' = Outcome("success", full_name, a.value, "")
                /\ statistics' = NoStatistics
           ELSE /\ requests' =
                       [q \in Requests |->
                           IF q = r
                           THEN [requests[r] EXCEPT !.pc = "persist_vouchers",
                                                    !.mappings_df = mappings,
                                                    !.rivals = rivals]
                           ELSE IF q \in rivals
                           THEN [requests[q] EXCEPT !.rivals = @ \cup {r}]
                           ELSE requests[q]]
                /\ UNCHANGED <<result, statistics>>
    /\ UNCHANGED <<vouchers, mappings, authorized_users, now, epoch>>

\* a variant of the write of vouchers.csv that loads the file afresh and
\* chooses the voucher again before it writes
assign_voucher_persist_vouchers_reloaded(r) ==
    /\ requests[r].pc = "persist_vouchers"
    /\ vouchers' = allocate(requests[r].full_name, now, vouchers,
                            requests[r].mappings_df).vouchers
    /\ requests' = [requests EXCEPT ![r].pc = "persist_mappings",
                                     ![r].vouchers_df = vouchers]
    /\ UNCHANGED <<mappings, authorized_users, now, result, epoch, statistics>>

\* the chosen voucher is marked and vouchers.csv is written
assign_voucher_persist_vouchers(r) ==
    /\ requests[r].pc = "persist_vouchers"
    /\ vouchers' = computed(r, now).vouchers
    /\ requests' = [requests EXCEPT ![r].pc = "persist_mappings"]
    /\ UNCHANGED <<mappings, authorized_users, now, result, epoch, statistics>>

\* the new row is appended, mappings.csv is written and the call returns
assign_voucher_persist_mappings(r, timestamp) ==
    /\ requests[r].pc = "persist_mappings"
    /\ LET a == computed(r, timestamp)
       IN  /\ Len(a.mappings) <= MaxLog
           /\ mappings' = a.mappings
           /\ requests' =
                  [requests EXCEPT ![r] =
                      IF requests[r].rivals # {}
                      THEN [Idle EXCEPT !.pc = "done",
                                        !.full_name = requests[r].full_name,
                                        !.value = a.value,
                                        !.rivals = requests[r].rivals]
                      ELSE Idle]
           /\ result' = IF a.ok
                        THEN Outcome("success", requests[r].full_name, a.value, "")
                        ELSE Outcome("error", <<>>, NaN, a.message)
    /\ now' = timestamp
    /\ statistics' = NoStatistics
    /\ UNCHANGED <<vouchers, authorized_users, epoch>>

\* vouchers.csv is written and the script of session r stops there, before
\* it writes mappings.csv
stop(r) ==
    /\ requests[r].pc = "persist_vouchers"
    /\ vouchers' = computed(r, now).vouchers
    /\ requests' = [requests EXCEPT ![r] =
                       [Idle EXCEPT !.pc = "crashed",
                                    !.value = computed(r, now).value]]
    /\ UNCHANGED <<mappings, authorized_users, now, result, epoch, statistics>>

\* the admin's session beside the sessions of the requesters
admin_import_vouchers(password_input, uploaded_vouchers) ==
    /\ upload_vouchers(password_input, uploaded_vouchers)
    /\ requests' = IF result'.message = VouchersUploaded
                   THEN after_import(requests) ELSE requests

\* each session is one visitor, who types one name
ConcurrentNames(r) == IF r = 1 THEN { <<"a"," ","b">> } ELSE { <<"A"," ","b">> }

\* the files the admin uploads while sessions overlap
ConcurrentUserFiles ==
    { f \in Uploads(UserCells) : f.has_column /\ f.column = << <<"a"," ","7">> >> }

ConcurrentVoucherFiles ==
    { f \in Uploads(VoucherCells) :
        f.has_column /\ f.column = << <<"A","1">>, <<"0","7">> >> }

NextConcurrent ==
    \/ \E r \in Requests, p \in PasswordInputs :
          \E n \in ConcurrentNames(r) : submit(r, p, n)
    \/ \E r \in Requests : assign_voucher_load_vouchers(r)
    \/ \E r \in Requests : assign_voucher_load_mappings(r)
    \/ \E r \in Requests : assign_voucher_persist_vouchers(r)
    \/ \E r \in Requests, t \in Clock : assign_voucher_persist_mappings(r, t)
    \/ \E r \in Requests : stop(r)
    \/ \E p \in PasswordInputs, f \in ConcurrentVoucherFiles :
          admin_import_vouchers(p, f)
    \/ \E p \in PasswordInputs, f \in ConcurrentUserFiles :
          upload_users(p, f) /\ UNCHANGED requests
    \/ \E p \in PasswordInputs : admin_page(p) /\ UNCHANGED requests

SpecConcurrent == Init /\ [][NextConcurrent]_vars

\* one run of the page under the given inputs, no other session running
Run(names, user_cells, voucher_cells) ==
    \/ \E p \in PasswordInputs, n \in names, t \in Clock :
          voucher_form(p, n, t) /\ UNCHANGED requests
    \/ \E p \in PasswordInputs, f \in Uploads(voucher_cells) :
          upload_vouchers(p, f) /\ UNCHANGED requests
    \/ \E p \in PasswordInputs, f \in Uploads(user_cells) :
          upload_users(p, f) /\ UNCHANGED requests
    \/ \E p \in PasswordInputs : admin_page(p) /\ UNCHANGED requests

Next == Run(NameInputs, UserCells, VoucherCells)

Spec == Init /\ [][Next]_vars

\* the same program fed voucher files in which a voucher_code cell is missing
MissingCodeCells == { <<"A","1">>, <<"N","A">> }

NextMissing ==
    Run({<<"a"," ","b">>, <<"A"," ","b">>, <<" ">>}, {<<"a"," ","7">>}, MissingCodeCells)

SpecMissing == Init /\ [][NextMissing]_vars

(***************************************************************************)
(* Vocabulary of the claims, stated on the stored rows.                    *)
(***************************************************************************)
\* the lowercase whitespace-free pieces of a text
Fragments(s) ==
    LET l == Lower(s)
    IN  { SubSeq(l, i, j) : i \in 1..Len(l), j \in 1..Len(l) } \
        { q \in { SubSeq(l, i, j) : i \in 1..Len(l), j \in 1..Len(l) } :
            q = <<>> \/ \E k \in 1..Len(q) : q[k] \in Whitespace }

\* the lowercase whitespace-separated tokens of a text: the pieces that
\* reach from one word boundary to the next
Tokens(s) ==
    { w \in Fragments(s) :
        \E i \in 1..Len(s) :
            /\ i + Len(w) - 1 <= Len(s)
            /\ SubSeq(Lower(s), i, i + Len(w) - 1) = w
            /\ (i = 1 \/ s[i - 1] \in Whitespace)
            /\ (i + Len(w) - 1 = Len(s) \/ s[i + Len(w)] \in Whitespace) }

\* the name shares a word with an entry of the Authorization List
SharesToken(full_name) ==
    \E k \in 1..Len(authorized_users) :
        Tokens(full_name) \cap Tokens(authorized_users[k]) # {}

\* rows of the Mapping Log recorded for a name
RowsOf(log, full_name) == { i \in 1..Len(log) : log[i].full_name = full_name }

Unassigned(store) == { i \in 1..Len(store) : ~store[i].assigned }

\* a step of the form that reaches assign_voucher with this name
Calls(full_name) ==
    \E p \in PasswordInputs, typed \in NameInputs, t \in Clock :
        /\ Strip(typed) = full_name
        /\ full_name # <<>>
        /\ voucher_form(p, typed, t)

CalledNames == { Strip(n) : n \in NameInputs } \ {<<>>}

(***************************************************************************)
(* C1: a voucher code is single-use: no two Mapping rows with different    *)
(* full_name carry the same voucher_code.                                  *)
(***************************************************************************)
C1_SingleUse ==
    \A i \in 1..Len(mappings), j \in 1..Len(mappings) :
        mappings[i].full_name # mappings[j].full_name
            => mappings[i].voucher_code # mappings[j].voucher_code

(***************************************************************************)
(* C2: exhaustion: after an upload of N vouchers into an empty Mapping     *)
(* Log, of N+1 pairwise distinct authorized names calling in turn the      *)
(* first N succeed with pairwise distinct codes and the (N+1)-th fails     *)
(* with NoVouchersAvailable.                                               *)
(***************************************************************************)
C2_Exhaustion ==
    epoch.valid =>
        \A k \in 1..Len(epoch.calls) :
            /\ k <= epoch.n =>
                  /\ epoch.calls[k].ok
                  /\ \A j \in 1..(k - 1) :
                        epoch.calls[j].value # epoch.calls[k].value
            /\ k = epoch.n + 1 =>
                  /\ ~epoch.calls[k].ok
                  /\ epoch.calls[k].message = NoVouchersAvailable

(***************************************************************************)
(* C3: idempotence: a call that immediately follows a successful call by   *)
(* the same name returns the same code, marks no further voucher assigned  *)
(* and leaves exactly one Mapping row for that name.                       *)
(***************************************************************************)
C3_Idempotent ==
    [][\A name \in CalledNames :
          (result.kind = "success" /\ result.name = name /\ Calls(name)) =>
              /\ result'.kind = "success"
              /\ result'.value = result.value
              /\ Unassigned(vouchers') = Unassigned(vouchers)
              /\ Cardinality(RowsOf(mappings', name)) = 1]_vars

(***************************************************************************)
(* C4: a name that shares no token with any entry of the Authorization     *)
(* List is refused with NotAuthorized, and the Voucher Store and the       *)
(* Mapping Log stay as they were.                                          *)
(***************************************************************************)
C4_NotAuthorizedNoChange ==
    [][\A name \in CalledNames :
          (~SharesToken(name) /\ Calls(name)) =>
              /\ result'.kind = "error"
              /\ result'.message = NotAuthorized
              /\ vouchers' = vouchers
              /\ mappings' = mappings]_vars

(***************************************************************************)
(* C5: isAuthorized(fullName) is true exactly when a lowercase             *)
(* whitespace-separated token of fullName equals a token of some           *)
(* Authorization List entry.                                               *)
(***************************************************************************)
C5_AuthorizedIffSharedToken ==
    \A name \in CalledNames : is_user_authorized(name) <=> SharesToken(name)

(***************************************************************************)
(* C6: a new authorized name, with a voucher unassigned, is given the code *)
(* of the first unassigned entry; that entry becomes assigned, entries     *)
(* with another code keep flag and position, and the Mapping Log grows by  *)
(* exactly one row (name, code) placed last.                               *)
(***************************************************************************)
C6_FirstUnassigned ==
    [][\A name \in CalledNames, t \in Clock :
          ( /\ SharesToken(name)
            /\ RowsOf(mappings, name) = {}
            /\ Unassigned(vouchers) # {}
            /\ Calls(name)
            /\ now' = t ) =>
              LET first == Min(Unassigned(vouchers))
                  code == vouchers[first].voucher_code
              IN  /\ result'.kind = "success"
                  /\ ToStr(result'.value) = code
                  /\ Len(vouchers') = Len(vouchers)
                  /\ vouchers'[first] = [voucher_code |-> code, assigned |-> TRUE]
                  /\ \A i \in 1..Len(vouchers) :
                        vouchers[i].voucher_code # code => vouchers'[i] = vouchers[i]
                  /\ mappings' =
                        Append(mappings, [timestamp |-> t, full_name |-> name,
                                          voucher_code |-> code])]_vars

(***************************************************************************)
(* C7: the Mapping Log holds at most one row per distinct full_name        *)
(* (case-sensitive exact equality).                                        *)
(***************************************************************************)
C7_OneRowPerName ==
    \A i \in 1..Len(mappings), j \in 1..Len(mappings) :
        mappings[i].full_name = mappings[j].full_name => i = j

(***************************************************************************)
(* C8: every Mapping row's voucher_code is the code of a Voucher Store     *)
(* entry whose assigned flag is true.                                      *)
(***************************************************************************)
C8_MappingHasAssignedVoucher ==
    \A i \in 1..Len(mappings) :
        \E k \in 1..Len(vouchers) :
            /\ vouchers[k].voucher_code = mappings[i].voucher_code
            /\ vouchers[k].assigned

(***************************************************************************)
(* C9: every Voucher Store entry whose assigned flag is true is referenced *)
(* by at least one Mapping row with that voucher_code.                     *)
(***************************************************************************)
C9_AssignedHasMapping ==
    \A k \in 1..Len(vouchers) :
        vouchers[k].assigned =>
            \E i \in 1..Len(mappings) :
                mappings[i].voucher_code = vouchers[k].voucher_code

(***************************************************************************)
(* C10: each voucher code appears in the Voucher Store at most once.       *)
(***************************************************************************)
C10_UniqueCodes ==
    \A i \in 1..Len(vouchers), j \in 1..Len(vouchers) :
        vouchers[i].voucher_code = vouchers[j].voucher_code => i = j

(***************************************************************************)
(* C11: voucher lifecycle: a code that is in the Voucher Store stays in    *)
(* it in every later state, and an assigned flag that is true stays true.  *)
(***************************************************************************)
C11_Lifecycle ==
    [][\A i \in 1..Len(vouchers) :
          \E j \in 1..Len(vouchers') :
              /\ vouchers'[j].voucher_code = vouchers[i].voucher_code
              /\ vouchers[i].assigned => vouchers'[j].assigned]_vars

(***************************************************************************)
(* C15: import validation: a voucher import whose file lacks the           *)
(* voucher_code column, and a user import whose file lacks the full_name   *)
(* column, is rejected with an error and leaves the Voucher Store, the     *)
(* Authorization List and the Mapping Log as they were.                    *)
(***************************************************************************)
LacksColumn == [readable |-> TRUE, has_column |-> FALSE, column |-> <<>>]

C15_ImportValidation ==
    [][( \/ upload_vouchers(admin_password, LacksColumn)
         \/ upload_users(admin_password, LacksColumn) ) =>
          /\ result'.kind = "error"
          /\ result'.message \in {VoucherSchemaInvalid, UserSchemaInvalid}
          /\ vouchers' = vouchers
          /\ authorized_users' = authorized_users
          /\ mappings' = mappings]_vars

\* a rejected voucher import met stores that all hold rows, one voucher assigned
C15_Witness ==
    /\ result.message = VoucherSchemaInvalid
    /\ \E k \in 1..Len(vouchers) : vouchers[k].assigned
    /\ mappings # <<>>
    /\ authorized_users # <<>>

(***************************************************************************)
(* C16: full-replace import: after a successful voucher import the Voucher *)
(* Store is exactly the imported rows in input order, each with assigned = *)
(* false; after a successful user import the Authorization List is exactly *)
(* the imported names; the Mapping Log and the other store are unchanged.  *)
(***************************************************************************)
C16_FullReplace ==
    [][/\ \A f \in Uploads(VoucherCells) :
             (f.has_column /\ upload_vouchers(admin_password, f)) =>
                 /\ vouchers' = [i \in 1..Len(f.column) |->
                                    [voucher_code |-> f.column[i], assigned |-> FALSE]]
                 /\ authorized_users' = authorized_users
                 /\ mappings' = mappings
       /\ \A f \in Uploads(UserCells) :
             (f.has_column /\ upload_users(admin_password, f)) =>
                 /\ authorized_users' = f.column
                 /\ vouchers' = vouchers
                 /\ mappings' = mappings]_vars

(***************************************************************************)
(* C17: statistics: the reported available-voucher count equals the        *)
(* reported total-voucher count minus the reported assigned-voucher count, *)
(* and computing the statistics changes none of the three stores.          *)
(***************************************************************************)
C17_Statistics ==
    [][/\ statistics'.shown =>
             statistics'.available_vouchers =
                 statistics'.total_vouchers - statistics'.assigned_vouchers
       /\ admin_page(admin_password) =>
             /\ statistics'.shown
             /\ vouchers' = vouchers
             /\ mappings' = mappings
             /\ authorized_users' = authorized_users]_vars

\* the admin page shown over a store with an assigned and an unassigned voucher
C17_Witness ==
    /\ statistics.shown
    /\ result = NoResult
    /\ statistics.assigned_vouchers = 1
    /\ statistics.available_vouchers = 1
    /\ statistics.total_users = 2

(***************************************************************************)
(* C18: authorization is checked before the idempotent lookup: when a name *)
(* has a Mapping and a user import has just replaced the Authorization     *)
(* List with one that shares no token with the name, the next call for the *)
(* name fails with NotAuthorized and its Mapping row stays in the log.     *)
(***************************************************************************)
C18_AuthorizationBeforeLookup ==
    [][\A name \in CalledNames :
          ( /\ RowsOf(mappings, name) # {}
            /\ result.message = UsersUploaded
            /\ ~SharesToken(name)
            /\ Calls(name) ) =>
              /\ result'.kind = "error"
              /\ result'.message = NotAuthorized
              /\ \A i \in RowsOf(mappings, name) :
                    i <= Len(mappings') /\ mappings'[i] = mappings[i]]_vars

(***************************************************************************)
(* C19: re-import does not invalidate earlier grants: after a successful   *)
(* voucher import, a call by an authorized name that already has a Mapping *)
(* returns the code recorded in the Mapping Log and marks no voucher of    *)
(* the new store assigned, whether or not the new store holds that code.   *)
(***************************************************************************)
C19_GrantSurvivesReimport ==
    [][\A name \in CalledNames :
          ( /\ RowsOf(mappings, name) # {}
            /\ result.message = VouchersUploaded
            /\ SharesToken(name)
            /\ Calls(name) ) =>
              /\ result'.kind = "success"
              /\ ToStr(result'.value) =
                     mappings[Min(RowsOf(mappings, name))].voucher_code
              /\ vouchers' = vouchers]_vars

(***************************************************************************)
(* C20: names that differ only in letter case are two requesters: after an *)
(* upload of at least two vouchers, a call by an authorized name followed  *)
(* by a call by a name that differs from it only in case gives two Mapping *)
(* rows and two different voucher codes.                                   *)
(***************************************************************************)
C20_CaseSensitiveLookup ==
    [][\A first \in CalledNames, second \in CalledNames :
          ( /\ epoch.valid
            /\ epoch.n >= 2
            /\ Len(epoch.calls) = 1
            /\ epoch.calls[1].name = first
            /\ first # second
            /\ Lower(first) = Lower(second)
            /\ SharesToken(first)
            /\ Calls(second) ) =>
              /\ epoch.calls[1].ok
              /\ result'.kind = "success"
              /\ result'.value # epoch.calls[1].value
              /\ RowsOf(mappings', first) # {}
              /\ RowsOf(mappings', second) # {}
              /\ Len(mappings') = 2]_vars

(***************************************************************************)
(* C12: the Mapping Log is append-only, also when the load and persist     *)
(* steps of two assign_voucher calls interleave: every persisted row stays *)
(* in place unchanged and the log changes only by gaining rows at its end. *)
(***************************************************************************)
C12_AppendOnly ==
    [][/\ Len(mappings') >= Len(mappings)
       /\ \A i \in 1..Len(mappings) : mappings'[i] = mappings[i]]_vars

(***************************************************************************)
(* C13: race on allocation: two calls for two different authorized         *)
(* unmapped names that have both loaded the Voucher Store before either    *)
(* persists it select the same first unassigned voucher and both return    *)
(* success with the same voucher code.                                     *)
(***************************************************************************)
C13_RaceOnAllocation ==
    \A r1 \in Requests, r2 \in Requests :
        ( /\ requests[r1].pc = "done"
          /\ requests[r2].pc = "done"
          /\ r2 \in requests[r1].rivals ) =>
            /\ requests[r1].full_name # requests[r2].full_name
            /\ requests[r1].value.t # "nan"
            /\ requests[r1].value = requests[r2].value

\* both racing calls have returned, with one code for two names
C13_Witness ==
    \E r1 \in Requests, r2 \in Requests :
        /\ requests[r1].pc = "done"
        /\ requests[r2].pc = "done"
        /\ r2 \in requests[r1].rivals
        /\ requests[r1].full_name # requests[r2].full_name
        /\ requests[r1].value = requests[r2].value
        /\ result = Outcome("success", requests[r2].full_name, requests[r1].value, "")
        /\ \E k \in 1..Len(vouchers) : ~vouchers[k].assigned

(***************************************************************************)
(* C14: crash window: when a call for a new name stops after vouchers.csv  *)
(* is written and before mappings.csv is, the chosen voucher is marked     *)
(* assigned and no Mapping row carries its code; and no call that starts   *)
(* afterwards, with no voucher import in between, returns that code.       *)
(***************************************************************************)
C14_CrashWindow ==
    [][\A r \in Requests :
          /\ stop(r) =>
                LET code == ToStr(requests'[r].value)
                IN  /\ \E k \in 1..Len(vouchers') :
                          /\ vouchers'[k].voucher_code = code
                          /\ vouchers'[k].assigned
                    /\ \A i \in 1..Len(mappings') :
                          mappings'[i].voucher_code # code
          /\ \A q \in requests[r].after_crash :
                ( /\ requests[q].pc = "crashed"
                  /\ requests'[r].pc \in {"idle", "done"}
                  /\ requests[r].pc \in {"load_mappings", "persist_mappings"}
                  /\ result'.kind = "success" ) =>
                    ToStr(result'.value) # ToStr(requests[q].value)]_vars

====
